---- MODULE Spec2Model ----
(***************************************************************************)
(* fdl: lexer (src/src/lexer.rs), data model (src/src/core.rs) and parser  *)
(* (src/src/parser.rs), as driven by Parser::from_tokens(Lexer::new(src)). *)
(*                                                                         *)
(* Characters are one-character strings; a Rust String or Vec<char> is a   *)
(* sequence of characters.  The character '\0' is written NUL.             *)
(* A HashMap is a function whose DOMAIN is its key set.                    *)
(***************************************************************************)
EXTENDS Integers, Sequences, FiniteSets, TLC

VARIABLES source, lexer, things, thing_stack, result, err, pulled, call, calls,
          walk, yielded, made

vars == <<source, lexer, things, thing_stack, result, err, pulled, call, calls,
          walk, yielded, made>>

(***************************************************************************)
(* Bounds of the model.                                                    *)
(***************************************************************************)
\* number of fragments a source text is made of
MaxFrags == 3
\* number of Thing API calls made on a returned forest
MaxCalls == 1

(***************************************************************************)
(* Characters and their classes (char::is_whitespace, is_alphanumeric,     *)
(* is_numeric, and the ranges matched in Lexer::consume), restricted to    *)
(* the characters the sources of this model are written with.  The char    *)
(* classes of the standard library go beyond ASCII: E_ACUTE stands for a   *)
(* letter outside 'A'..='Z' | 'a'..='z' (is_alphanumeric, not is_numeric)  *)
(* and ONE_HALF for a numeric character outside '0'..='9' (is_numeric and  *)
(* is_alphanumeric).                                                       *)
(***************************************************************************)
NUL == "NUL"
QUOTE == "\""
BACKSLASH == "\\"
NEWLINE == "\n"
E_ACUTE == "e_acute"
ONE_HALF == "one_half"

AsciiDigits == {"0", "1", "2", "3", "4", "5", "6", "7", "8", "9"}

AsciiLetters ==
    {"a", "b", "c", "d", "e", "f", "g", "h", "i", "j", "k", "l", "m",
     "n", "o", "p", "q", "r", "s", "t", "u", "v", "w", "x", "y", "z",
     "A", "B", "C", "D", "E", "F", "G", "H", "I", "J", "K", "L", "M",
     "N", "O", "P", "Q", "R", "S", "T", "U", "V", "W", "X", "Y", "Z"}

is_whitespace(c) == c \in {" ", NEWLINE, "\t", "\r"}

is_numeric(c) == c \in AsciiDigits \/ c = ONE_HALF

is_alphanumeric(c) ==
    c \in AsciiLetters \/ c \in AsciiDigits \/ c \in {E_ACUTE, ONE_HALF}

(***************************************************************************)
(* Sequence helpers.                                                       *)
(***************************************************************************)
Last(s) == s[Len(s)]

Front(s) == SubSeq(s, 1, Len(s) - 1)

RECURSIVE Flatten(_)
Flatten(ss) == IF ss = <<>> THEN <<>> ELSE Head(ss) \o Flatten(Tail(ss))

(***************************************************************************)
(* string_utils.rs                                                         *)
(***************************************************************************)
strip_quotes(val) ==
    LET starts == Len(val) > 0 /\ val[1] = QUOTE
        ends == Len(val) > 0 /\ val[Len(val)] = QUOTE
        c1 == IF starts THEN Tail(val) ELSE val
    IN  IF ends /\ Len(c1) > 0 THEN Front(c1) ELSE c1

(***************************************************************************)
(* lexer.rs                                                                *)
(*   A lexer state is [index, line, last_line_index]; the source is fixed. *)
(*   index is zero-based as in the code: source[index] is src[index + 1].  *)
(***************************************************************************)
TokenInfo_new(line, col) == [line |-> line, col |-> col]

Token_new(kind, literal) == [kind |-> kind, literal |-> literal]

Lexer_new == [index |-> 0, line |-> 0, last_line_index |-> 0]

peek_offset(src, lx, offset) ==
    LET peek_index == lx.index + offset
    IN  IF peek_index < 0 THEN NUL
        ELSE IF peek_index < Len(src) THEN src[peek_index + 1]
        ELSE NUL

peek(src, lx) == peek_offset(src, lx, 0)

RECURSIVE skip_whitespace(_, _)
skip_whitespace(src, lx) ==
    IF is_whitespace(peek(src, lx))
    THEN skip_whitespace(src,
            IF peek(src, lx) = NEWLINE
            THEN [index |-> lx.index + 1, line |-> lx.line + 1,
                  last_line_index |-> lx.index + 1]
            ELSE [lx EXCEPT !.index = lx.index + 1])
    ELSE lx

\* The consume_* operators give [token, lx, diverges]: the token, the lexer
\* state after it, and whether the loop of the function never ends.
consume_char(src, lx) ==
    LET c == peek(src, lx)
    IN  [token |-> Token_new("Symbol", <<c>>),
         lx |-> IF c # NUL THEN [lx EXCEPT !.index = lx.index + 1] ELSE lx,
         diverges |-> FALSE]

RECURSIVE consume_word_loop(_, _, _)
consume_word_loop(src, lx, literal) ==
    IF is_alphanumeric(peek(src, lx)) \/ peek(src, lx) = "_"
    THEN consume_word_loop(src, [lx EXCEPT !.index = lx.index + 1],
                           Append(literal, peek(src, lx)))
    ELSE [token |-> Token_new("Word", literal), lx |-> lx, diverges |-> FALSE]

consume_word(src, lx) == consume_word_loop(src, lx, <<>>)

RECURSIVE consume_number_loop(_, _, _)
consume_number_loop(src, lx, literal) ==
    IF is_numeric(peek(src, lx))
         \/ (peek(src, lx) = "." /\ is_numeric(peek_offset(src, lx, 1)))
    THEN consume_number_loop(src, [lx EXCEPT !.index = lx.index + 1],
                             Append(literal, peek(src, lx)))
    ELSE [token |-> Token_new("Number", literal), lx |-> lx, diverges |-> FALSE]

consume_number(src, lx) == consume_number_loop(src, lx, <<>>)

\* the loop of consume_string ending at the first quote, escaped or not
RECURSIVE consume_string_loop_unescaped(_, _, _)
consume_string_loop_unescaped(src, lx, literal) ==
    IF peek(src, lx) # QUOTE
    THEN IF lx.index >= Len(src)
         THEN [token |-> Token_new("String", literal), lx |-> lx,
               diverges |-> TRUE]
         ELSE consume_string_loop_unescaped(src,
                  [lx EXCEPT !.index = lx.index + 1],
                  Append(literal, peek(src, lx)))
    ELSE [token |-> Token_new("String", Append(literal, peek(src, lx))),
          lx |-> [lx EXCEPT !.index = lx.index + 1],
          diverges |-> FALSE]

\* The loop of consume_string.  Past the end of the source peek() is '\0'
\* for ever, which is not a quote: the loop pushes '\0' and never ends.
RECURSIVE consume_string_loop(_, _, _)
consume_string_loop(src, lx, literal) ==
    IF peek(src, lx) # QUOTE \/ peek_offset(src, lx, -1) = BACKSLASH
    THEN IF lx.index >= Len(src)
         THEN [token |-> Token_new("String", literal), lx |-> lx,
               diverges |-> TRUE]
         ELSE consume_string_loop(src, [lx EXCEPT !.index = lx.index + 1],
                                  Append(literal, peek(src, lx)))
    ELSE [token |-> Token_new("String", Append(literal, peek(src, lx))),
          lx |-> [lx EXCEPT !.index = lx.index + 1],
          diverges |-> FALSE]

consume_string(src, lx) ==
    consume_string_loop(src, [lx EXCEPT !.index = lx.index + 1],
                        <<peek(src, lx)>>)

\* Lexer::consume / Iterator::next gives [status, token, info, lx]: status is
\* "some" (an item), "none" (exhausted) or "hang" (the call never returns).
Consumed(r, token_info) ==
    [status |-> IF r.diverges THEN "hang" ELSE "some",
     token |-> r.token, info |-> token_info, lx |-> r.lx]

\* the match on the character c = peek() in consume
consume_match(src, lx, c, token_info) ==
    IF c \in AsciiDigits THEN Consumed(consume_number(src, lx), token_info)
    ELSE IF c \in AsciiLetters THEN Consumed(consume_word(src, lx), token_info)
    ELSE IF c = QUOTE THEN Consumed(consume_string(src, lx), token_info)
    ELSE IF c = NUL
    THEN [status |-> "none", token |-> Token_new("None", <<>>),
          info |-> token_info, lx |-> lx]
    ELSE Consumed(consume_char(src, lx), token_info)

\* consume once the whitespace is skipped
consume_skipped(src, lx) ==
    consume_match(src, lx, peek(src, lx),
                  TokenInfo_new(lx.line, lx.index - lx.last_line_index))

consume(src, lx0) == consume_skipped(src, skip_whitespace(src, lx0))

(***************************************************************************)
(* core.rs: PropValue, Prop and the literal conversions.                   *)
(*   str::parse::<i32>, ::<f32> and ::<bool> are the standard library's.   *)
(*   A Float is kept as the decimal it was read from, mant * 10^exp with   *)
(*   mant free of trailing zeros (f32 rounding is not modelled); inf and   *)
(*   nan are classes of their own.                                         *)
(***************************************************************************)
I32_MIN == -2147483647 - 1
I32_MAX == 2147483647

PV_Int(v) == [tag |-> "Int", int |-> v]
PV_Float(v) == [tag |-> "Float", float |-> v]
PV_Bool(v) == [tag |-> "Bool", bool |-> v]
PV_String(v) == [tag |-> "String", string |-> v]
PV_Err == [tag |-> "Err"]

DigitValue(c) ==
    CASE c = "0" -> 0 [] c = "1" -> 1 [] c = "2" -> 2 [] c = "3" -> 3
      [] c = "4" -> 4 [] c = "5" -> 5 [] c = "6" -> 6 [] c = "7" -> 7
      [] c = "8" -> 8 [] c = "9" -> 9

RECURSIVE DigitsValue(_)
DigitsValue(ds) ==
    IF ds = <<>> THEN 0 ELSE DigitsValue(Front(ds)) * 10 + DigitValue(Last(ds))

AllDigits(ds) == \A i \in 1..Len(ds) : ds[i] \in AsciiDigits

\* the longest prefix of s made of ASCII digits
RECURSIVE LeadingDigits(_)
LeadingDigits(s) ==
    IF s # <<>> /\ Head(s) \in AsciiDigits
    THEN <<Head(s)>> \o LeadingDigits(Tail(s))
    ELSE <<>>

Drop(s, n) == SubSeq(s, n + 1, Len(s))

HasSign(lit) == Len(lit) > 0 /\ lit[1] \in {"+", "-"}

\* the digit loop giving the value read so far, without the digits that
\* do not fit, instead of failing
RECURSIVE i32_digits_truncating(_, _, _)
i32_digits_truncating(ds, acc, negative) ==
    IF ds = <<>> THEN [ok |-> TRUE, val |-> acc]
    ELSE IF Head(ds) \notin AsciiDigits THEN [ok |-> FALSE, val |-> 0]
    ELSE LET d == DigitValue(Head(ds))
         IN  IF negative
             THEN IF acc < (I32_MIN + d) \div 10 + (IF (I32_MIN + d) % 10 = 0 THEN 0 ELSE 1)
                  THEN [ok |-> TRUE, val |-> acc]
                  ELSE i32_digits_truncating(Tail(ds), acc * 10 - d, negative)
             ELSE IF acc > (I32_MAX - d) \div 10
                  THEN [ok |-> TRUE, val |-> acc]
                  ELSE i32_digits_truncating(Tail(ds), acc * 10 + d, negative)

\* The digit loop of str::parse::<i32>: acc is the value so far, each digit
\* is added (or, after a '-', subtracted) with checked arithmetic.
RECURSIVE i32_digits(_, _, _)
i32_digits(ds, acc, negative) ==
    IF ds = <<>> THEN [ok |-> TRUE, val |-> acc]
    ELSE IF Head(ds) \notin AsciiDigits THEN [ok |-> FALSE, val |-> 0]
    ELSE LET d == DigitValue(Head(ds))
         IN  IF negative
             THEN IF acc < (I32_MIN + d) \div 10 + (IF (I32_MIN + d) % 10 = 0 THEN 0 ELSE 1)
                  THEN [ok |-> FALSE, val |-> 0]
                  ELSE i32_digits(Tail(ds), acc * 10 - d, negative)
             ELSE IF acc > (I32_MAX - d) \div 10
                  THEN [ok |-> FALSE, val |-> 0]
                  ELSE i32_digits(Tail(ds), acc * 10 + d, negative)

\* str::parse::<i32>: [ok, val]
parse_i32(lit) ==
    LET digits == IF HasSign(lit) THEN Tail(lit) ELSE lit
    IN  IF digits = <<>> THEN [ok |-> FALSE, val |-> 0]
        ELSE i32_digits(digits, 0, HasSign(lit) /\ lit[1] = "-")

\* str::parse::<bool>: [ok, val]
parse_bool(lit) ==
    IF lit = <<"t", "r", "u", "e">> THEN [ok |-> TRUE, val |-> TRUE]
    ELSE IF lit = <<"f", "a", "l", "s", "e">> THEN [ok |-> TRUE, val |-> FALSE]
    ELSE [ok |-> FALSE, val |-> FALSE]

ToLower(c) ==
    CASE c = "I" -> "i" [] c = "N" -> "n" [] c = "F" -> "f" [] c = "A" -> "a"
      [] c = "T" -> "t" [] c = "Y" -> "y" [] c = "E" -> "e" [] OTHER -> c

LowerAll(s) == [i \in 1..Len(s) |-> ToLower(s[i])]

RECURSIVE StripZeros(_, _)
StripZeros(m, e) ==
    IF m = 0 THEN [class |-> "finite", mant |-> 0, exp |-> 0]
    ELSE IF m % 10 = 0 THEN StripZeros(m \div 10, e + 1)
    ELSE [class |-> "finite", mant |-> m, exp |-> e]

\* str::parse::<f32>: [ok, val].  Sign? (Digits ['.' Digits] | '.' Digits)
\* [('e'|'E') Sign? Digits], or inf / infinity / nan in any letter case.
parse_f32(lit) ==
    LET neg == HasSign(lit) /\ lit[1] = "-"
        body == IF HasSign(lit) THEN Tail(lit) ELSE lit
        ip == LeadingDigits(body)
        r1 == Drop(body, Len(ip))
        dot == r1 # <<>> /\ Head(r1) = "."
        fp == IF dot THEN LeadingDigits(Tail(r1)) ELSE <<>>
        r2 == IF dot THEN Drop(r1, 1 + Len(fp)) ELSE r1
        hasExp == r2 # <<>> /\ Head(r2) \in {"e", "E"}
        ex == IF hasExp THEN Tail(r2) ELSE <<>>
        exDigits == IF HasSign(ex) THEN Tail(ex) ELSE ex
        exOk == exDigits # <<>> /\ AllDigits(exDigits)
        exVal == IF HasSign(ex) /\ ex[1] = "-"
                 THEN 0 - DigitsValue(exDigits) ELSE DigitsValue(exDigits)
        numOk == Len(ip) + Len(fp) > 0 /\ (r2 = <<>> \/ (hasExp /\ exOk))
        m == DigitsValue(ip \o fp)
        e == (IF hasExp /\ exOk THEN exVal ELSE 0) - Len(fp)
        low == LowerAll(body)
        bad == [ok |-> FALSE, val |-> [class |-> "nan", mant |-> 0, exp |-> 0]]
    IN  IF body = <<>> THEN bad
        ELSE IF numOk
        THEN [ok |-> TRUE, val |-> StripZeros(IF neg THEN 0 - m ELSE m, e)]
        ELSE IF low = <<"i", "n", "f">>
                \/ low = <<"i", "n", "f", "i", "n", "i", "t", "y">>
        THEN [ok |-> TRUE,
              val |-> [class |-> "inf", mant |-> IF neg THEN -1 ELSE 1, exp |-> 0]]
        ELSE IF low = <<"n", "a", "n">>
        THEN [ok |-> TRUE, val |-> [class |-> "nan", mant |-> 0, exp |-> 0]]
        ELSE bad

Prop_new_err(name) == [name |-> name, value |-> PV_Err]

int_from_literal(name, literal) ==
    IF parse_i32(literal).ok
    THEN [name |-> name, value |-> PV_Int(parse_i32(literal).val)]
    ELSE Prop_new_err(name)

float_from_literal(name, literal) ==
    IF parse_f32(literal).ok
    THEN [name |-> name, value |-> PV_Float(parse_f32(literal).val)]
    ELSE Prop_new_err(name)

\* Prop::string_from_literal taking a quoted literal only
string_from_literal_quoted(name, literal) ==
    IF literal # <<>> /\ Head(literal) = QUOTE
    THEN [name |-> name, value |-> PV_String(strip_quotes(literal))]
    ELSE Prop_new_err(name)

bool_from_literal(name, literal) ==
    IF parse_bool(literal).ok
    THEN [name |-> name, value |-> PV_Bool(parse_bool(literal).val)]
    ELSE Prop_new_err(name)

string_from_literal(name, literal) ==
    [name |-> name, value |-> PV_String(strip_quotes(literal))]

(***************************************************************************)
(* core.rs: Thing.  Option<T> is a sequence of at most one T.              *)
(***************************************************************************)
None == <<>>

Some(x) == <<x>>

EmptyMap == <<>>

\* an insert that leaves an entry already present as it is
HashMap_insert_keep(m, k, v) ==
    [map |-> [x \in (DOMAIN m) \cup {k} |->
                 IF x \in DOMAIN m THEN m[x] ELSE v],
     old |-> IF k \in DOMAIN m THEN Some(m[k]) ELSE None]

\* HashMap::insert(k, v): [map, old] where old is the Option it returns
HashMap_insert(m, k, v) ==
    [map |-> [x \in (DOMAIN m) \cup {k} |-> IF x = k THEN v ELSE m[x]],
     old |-> IF k \in DOMAIN m THEN Some(m[k]) ELSE None]

Thing_new(name) == [name |-> name, props |-> EmptyMap, things |-> EmptyMap]

\* Thing::add_prop(&mut self, prop): the thing afterwards
add_prop(thing, prop) ==
    [thing EXCEPT !.props = HashMap_insert(thing.props, prop.name, prop).map]

\* Thing::add_thing(&mut self, thing) -> Option<Thing>: [thing, ret]
add_thing(self, thing) ==
    [thing |-> [self EXCEPT
                  !.things = HashMap_insert(self.things, thing.name, thing).map],
     ret |-> HashMap_insert(self.things, thing.name, thing).old]

num_things(thing) == Cardinality(DOMAIN thing.things)

(***************************************************************************)
(* parser.rs                                                               *)
(*   A Parser is [things, thing_stack].  The token iterator handed to      *)
(*   from_tokens is the lexer: it is [lexer, pulled], where pulled lists   *)
(*   the items the iterator has yielded so far, oldest first.              *)
(*   A ParseError message is its text, with the name the text is built     *)
(*   around (the '{}' of the text) kept beside it.  The backquotes of the  *)
(*   texts are written as apostrophes.                                     *)
(***************************************************************************)
W_thing == <<"t", "h", "i", "n", "g">>
W_int == <<"i", "n", "t">>
W_float == <<"f", "l", "o", "a", "t">>
W_bool == <<"b", "o", "o", "l">>
W_string == <<"s", "t", "r", "i", "n", "g">>

TypeWords == {W_int, W_float, W_bool, W_string}

Message(text) == [text |-> text, arg |-> <<>>]

MissingBraceMessage(name) ==
    [text |-> "Token '{}' is missing a closing brace '}'", arg |-> name]

ParseError_new(token_info, message) ==
    [token_info |-> token_info, message |-> message]

NoError == ParseError_new(TokenInfo_new(0, 0), Message(""))

Parser_new == [things |-> EmptyMap, thing_stack |-> <<>>]

\* Iterator::next on the lexer: [status, item, it]
Yielded(c, pulled_before) ==
    [status |-> c.status,
     item |-> [token |-> c.token, info |-> c.info],
     it |-> [lexer |-> c.lx,
             pulled |-> IF c.status = "some"
                        THEN Append(pulled_before,
                                    [token |-> c.token, info |-> c.info])
                        ELSE pulled_before]]

next(src, it) == Yielded(consume(src, it.lexer), it.pulled)

\* The parse_* operators give [res, parser, it, err]: res is "Ok", "Err" or
\* "Hang" (a call of the iterator never returned).
Ok(parser, it) == [res |-> "Ok", parser |-> parser, it |-> it, err |-> NoError]

Err(parser, it, token_info, text) ==
    [res |-> "Err", parser |-> parser, it |-> it,
     err |-> ParseError_new(token_info, Message(text))]

Hang(parser, it) ==
    [res |-> "Hang", parser |-> parser, it |-> it, err |-> NoError]

\* Parser::add_thing naming the thing by the whole literal, quotes included
Parser_add_thing_quoted(parser, name_literal) ==
    [parser EXCEPT !.thing_stack = Append(@, Thing_new(name_literal))]

\* Parser::add_thing
Parser_add_thing(parser, name_literal) ==
    [parser EXCEPT
       !.thing_stack = Append(@, Thing_new(strip_quotes(name_literal)))]

\* parse_thing from its second iter.next() on: n1 is what the first gave
parse_thing_brace(src, parser, n1, n2) ==
    IF n2.status = "hang" THEN Hang(parser, n2.it)
    ELSE IF n2.status = "none"
    THEN Err(parser, n2.it, n1.item.info, "Expected '{' after thing name")
    ELSE IF n2.item.token.kind # "Symbol" \/ n2.item.token.literal # <<"{">>
    THEN Err(parser, n2.it, n2.item.info, "Expected '{' after thing name")
    ELSE Ok(Parser_add_thing(parser, n1.item.token.literal), n2.it)

\* parse_thing_name reporting a name of the wrong kind at the keyword
parse_thing_name_at_keyword(src, parser, item, n1) ==
    IF n1.status = "hang" THEN Hang(parser, n1.it)
    ELSE IF n1.status = "none" \/ n1.item.token.kind # "String"
    THEN Err(parser, n1.it, item.info,
             "Expected String name after keyword 'thing'")
    ELSE parse_thing_brace(src, parser, n1, next(src, n1.it))

\* parse_thing after its first iter.next(), which gave n1
parse_thing_name(src, parser, item, n1) ==
    IF n1.status = "hang" THEN Hang(parser, n1.it)
    ELSE IF n1.status = "none"
    THEN Err(parser, n1.it, item.info,
             "Expected String name after keyword 'thing'")
    ELSE IF n1.item.token.kind # "String"
    THEN Err(parser, n1.it, n1.item.info,
             "Expected String name after keyword 'thing'")
    ELSE parse_thing_brace(src, parser, n1, next(src, n1.it))

parse_thing(src, parser, item, it) ==
    parse_thing_name(src, parser, item, next(src, it))

\* the match on the type word at the end of parse_prop
prop_from_literal(type_word, prop_name, literal) ==
    CASE type_word = W_int -> int_from_literal(prop_name, literal)
      [] type_word = W_float -> float_from_literal(prop_name, literal)
      [] type_word = W_bool -> bool_from_literal(prop_name, literal)
      [] type_word = W_string -> string_from_literal(prop_name, literal)

\* thing_stack.last_mut().unwrap().add_prop(prop)
add_prop_to_last(parser, prop) ==
    [parser EXCEPT
       !.thing_stack[Len(parser.thing_stack)] = add_prop(@, prop)]

\* parse_prop_finish keeping a prop whose value did not convert
parse_prop_finish_tolerant(parser, n_val, prop) ==
    Ok(add_prop_to_last(parser, prop), n_val.it)

\* parse_prop from the conversion on: prop is the converted value token
parse_prop_finish(parser, n_val, prop) ==
    IF prop.value = PV_Err
    THEN Err(parser, n_val.it, n_val.item.info,
             "Unable to parse prop value matching declared prop type")
    ELSE Ok(add_prop_to_last(parser, prop), n_val.it)

\* parse_prop after its third iter.next(), which gave n_val
parse_prop_value(src, parser, item, n_name, n_eq, n_val) ==
    IF n_val.status = "hang" THEN Hang(parser, n_val.it)
    ELSE IF n_val.status = "none"
    THEN Err(parser, n_val.it, n_eq.item.info,
             "Expected value after prop declaration")
    ELSE IF item.token.literal \notin TypeWords
    THEN [res |-> "Err", parser |-> parser, it |-> n_val.it,
          err |-> ParseError_new(item.info,
                    [text |-> "Unexpected prop type '{}'",
                     arg |-> item.token.literal])]
    ELSE parse_prop_finish(parser, n_val,
            prop_from_literal(item.token.literal, n_name.item.token.literal,
                              n_val.item.token.literal))

\* parse_prop after its second iter.next(), which gave n_eq
parse_prop_eq(src, parser, item, n_name, n_eq) ==
    IF n_eq.status = "hang" THEN Hang(parser, n_eq.it)
    ELSE IF n_eq.status = "none"
    THEN Err(parser, n_eq.it, n_name.item.info,
             "Expected '=' symbol prop name")
    ELSE IF n_eq.item.token.kind # "Symbol" \/ n_eq.item.token.literal # <<"=">>
    THEN Err(parser, n_eq.it, n_eq.item.info,
             "Expected '=' symbol prop name")
    ELSE parse_prop_value(src, parser, item, n_name, n_eq, next(src, n_eq.it))

\* parse_prop after its first iter.next(), which gave n_name
parse_prop_name(src, parser, item, n_name) ==
    IF n_name.status = "hang" THEN Hang(parser, n_name.it)
    ELSE IF n_name.status = "none"
    THEN Err(parser, n_name.it, item.info, "Expected name after prop type")
    ELSE IF n_name.item.token.kind # "Word"
    THEN Err(parser, n_name.it, n_name.item.info,
             "Expected name after prop type")
    ELSE parse_prop_eq(src, parser, item, n_name, next(src, n_name.it))

\* parse_prop_name with the check for an open thing made only here, after
\* the name was read
parse_prop_name_checking(src, parser, item, n_name) ==
    IF n_name.status = "hang" THEN Hang(parser, n_name.it)
    ELSE IF n_name.status = "none"
    THEN Err(parser, n_name.it, item.info, "Expected name after prop type")
    ELSE IF n_name.item.token.kind # "Word"
    THEN Err(parser, n_name.it, n_name.item.info,
             "Expected name after prop type")
    ELSE IF parser.thing_stack = <<>>
    THEN Err(parser, n_name.it, item.info,
             "Unexpected prop definition outside of thing")
    ELSE parse_prop_eq(src, parser, item, n_name, next(src, n_name.it))

\* parse_prop checking for an open thing after the name instead of first
parse_prop_checking_late(src, parser, item, it) ==
    parse_prop_name_checking(src, parser, item, next(src, it))

parse_prop(src, parser, item, it) ==
    IF parser.thing_stack = <<>>
    THEN Err(parser, it, item.info,
             "Unexpected prop definition outside of thing")
    ELSE parse_prop_name(src, parser, item, next(src, it))

\* close_thing with the closed thing always put into the forest
close_thing_into_forest(parser, it, token_info) ==
    LET stack == parser.thing_stack
    IN  IF stack = <<>>
        THEN Err(parser, it, token_info, "Unexpected symbol: '}'")
        ELSE Ok([things |-> HashMap_insert(parser.things, Last(stack).name,
                                           Last(stack)).map,
                 thing_stack |-> Front(stack)],
                it)

\* close_thing reporting a stray '}' at the origin
close_thing_at_origin(parser, it, token_info) ==
    LET stack == parser.thing_stack
        thing == Last(stack)
        rest == Front(stack)
    IN  IF stack = <<>>
        THEN Err(parser, it, TokenInfo_new(0, 0), "Unexpected symbol: '}'")
        ELSE IF rest # <<>>
        THEN Ok([parser EXCEPT
                   !.thing_stack =
                      [rest EXCEPT ![Len(rest)].things =
                          HashMap_insert(@, thing.name, thing).map]],
                it)
        ELSE Ok([things |-> HashMap_insert(parser.things, thing.name, thing).map,
                 thing_stack |-> rest],
                it)

\* the '}' arm of parse_token
close_thing(parser, it, token_info) ==
    LET stack == parser.thing_stack
        thing == Last(stack)
        rest == Front(stack)
    IN  IF stack = <<>>
        THEN Err(parser, it, token_info, "Unexpected symbol: '}'")
        ELSE IF rest # <<>>
        THEN Ok([parser EXCEPT
                   !.thing_stack =
                      [rest EXCEPT ![Len(rest)].things =
                          HashMap_insert(@, thing.name, thing).map]],
                it)
        ELSE Ok([things |-> HashMap_insert(parser.things, thing.name, thing).map,
                 thing_stack |-> rest],
                it)

\* parse_token with the tokens it has no arm for skipped instead of rejected
parse_token_skipping(src, parser, item, it) ==
    LET token == item.token
    IN  IF token.kind = "Word"
        THEN IF token.literal = W_thing THEN parse_thing(src, parser, item, it)
             ELSE IF token.literal \in TypeWords
             THEN parse_prop(src, parser, item, it)
             ELSE Ok(parser, it)
        ELSE IF token.kind = "Symbol"
        THEN IF token.literal = <<"}">>
             THEN close_thing(parser, it, item.info)
             ELSE Ok(parser, it)
        ELSE Ok(parser, it)

\* parse_token rejecting unknown Words and Symbols but letting Numbers and
\* Strings pass
parse_token_words_only(src, parser, item, it) ==
    LET token == item.token
    IN  IF token.kind = "Word"
        THEN IF token.literal = W_thing THEN parse_thing(src, parser, item, it)
             ELSE IF token.literal \in TypeWords
             THEN parse_prop(src, parser, item, it)
             ELSE Err(parser, it, item.info, "Unexpected token")
        ELSE IF token.kind = "Symbol"
        THEN IF token.literal = <<"}">>
             THEN close_thing(parser, it, item.info)
             ELSE Err(parser, it, item.info, "Unexpected token")
        ELSE Ok(parser, it)

parse_token(src, parser, item, it) ==
    LET token == item.token
    IN  IF token.kind = "Word"
        THEN IF token.literal = W_thing THEN parse_thing(src, parser, item, it)
             ELSE IF token.literal \in TypeWords
             THEN parse_prop(src, parser, item, it)
             ELSE Err(parser, it, item.info, "Unexpected token")
        ELSE IF token.kind = "Symbol"
        THEN IF token.literal = <<"}">>
             THEN close_thing(parser, it, item.info)
             ELSE Err(parser, it, item.info, "Unexpected token")
        ELSE Err(parser, it, item.info, "Unexpected token")

\* loop_result noting an Err of parse_token and going on with the loop
loop_result_continue(r) ==
    [result |-> IF r.res = "Hang" THEN "hang" ELSE "running",
     parser |-> r.parser, it |-> r.it, err |-> r.err]

\* What from_tokens does with the result of one parse_token call:
\* [result, parser, it, err], result "running" while the loop goes on.
loop_result(r) ==
    [result |-> CASE r.res = "Ok" -> "running"
                  [] r.res = "Err" -> "err"
                  [] r.res = "Hang" -> "hang",
     parser |-> r.parser, it |-> r.it, err |-> r.err]

\* end_of_stream naming the outermost open thing
end_of_stream_outermost(parser, it) ==
    IF parser.thing_stack # <<>>
    THEN [result |-> "err",
          parser |-> [parser EXCEPT !.thing_stack = Front(@)],
          it |-> it,
          err |-> ParseError_new(TokenInfo_new(0, 0),
                     MissingBraceMessage(Head(parser.thing_stack).name))]
    ELSE [result |-> "ok", parser |-> parser, it |-> it, err |-> NoError]

\* What from_tokens does once the iterator is exhausted.
end_of_stream(parser, it) ==
    IF parser.thing_stack # <<>>
    THEN [result |-> "err",
          parser |-> [parser EXCEPT !.thing_stack = Front(@)],
          it |-> it,
          err |-> ParseError_new(TokenInfo_new(0, 0),
                     MissingBraceMessage(Last(parser.thing_stack).name))]
    ELSE [result |-> "ok", parser |-> parser, it |-> it, err |-> NoError]

\* from_tokens after 'tokens.next()' gave n: one turn of the loop, or the exit
from_tokens_item(src, parser, n) ==
    IF n.status = "hang"
    THEN [result |-> "hang", parser |-> parser, it |-> n.it, err |-> NoError]
    ELSE IF n.status = "some"
    THEN loop_result(parse_token(src, parser, n.item, n.it))
    ELSE end_of_stream(parser, n.it)

from_tokens_step(src, parser, it) == from_tokens_item(src, parser, next(src, it))

(***************************************************************************)
(* Thing API calls a consumer makes on the roots of a returned forest      *)
(* (parser.things is public, Thing::add_prop and Thing::add_thing are the  *)
(* mutators of core.rs).                                                   *)
(***************************************************************************)
N_A == <<"A">>
N_B == <<"B">>
N_x == <<"x">>
N_y == <<"y">>
L_1 == <<"1">>
L_true == <<"t", "r", "u", "e">>

\* the things handed to Thing::add_thing
ChildInputs ==
    {Thing_new(N_A), Thing_new(N_B),
     add_prop(Thing_new(N_B), int_from_literal(N_y, L_1)),
     add_thing(Thing_new(N_B), Thing_new(N_A)).thing}

\* the props handed to Thing::add_prop
PropInputs ==
    {int_from_literal(N_x, L_1), bool_from_literal(N_x, L_true),
     string_from_literal(N_y, L_true), int_from_literal(N_y, L_true)}

(***************************************************************************)
(* Source texts: one of the opening contexts, then up to MaxFrags          *)
(* fragments of the lexicon, each fragment followed by one space.          *)
(***************************************************************************)
SP == <<" ">>
S_A == <<QUOTE, "A", QUOTE>>
S_B == <<QUOTE, "B", QUOTE>>
L_dec == <<"1", ".", "5">>

\* thing "A" {<newline>
F_open_A == W_thing \o SP \o S_A \o SP \o <<"{", NEWLINE>>
\* thing "B" {
F_open_B == W_thing \o SP \o S_B \o SP \o <<"{">>
\* thing "B" { }
F_empty_B == F_open_B \o <<" ", "}">>
\* int x = 1
F_prop == W_int \o SP \o N_x \o <<" ", "=", " ", "1">>
\* thing "B" { int x = 1 }
F_full_B == F_open_B \o SP \o F_prop \o <<" ", "}">>
\* string x =
F_string_head == W_string \o SP \o N_x \o <<" ", "=">>
\* bool x =
F_bool_head == W_bool \o SP \o N_x \o <<" ", "=">>
\* float y =
F_float_head == W_float \o SP \o N_y \o <<" ", "=">>
\* "A   (a string that is never closed)
F_open_string == <<QUOTE, "A">>

Contexts ==
    {<<>>, <<F_open_A>>, <<F_open_A, F_open_B>>, <<F_open_A, F_prop>>,
     <<F_open_A, F_full_B>>}

Lexicon ==
    {F_empty_B, F_full_B, F_prop, F_string_head, F_bool_head, F_float_head,
     <<"}">>, <<"=">>, W_thing, W_int, L_true, S_A, L_dec, F_open_string}

RECURSIVE JoinFrags(_)
JoinFrags(fs) ==
    IF fs = <<>> THEN <<>> ELSE Head(fs) \o SP \o JoinFrags(Tail(fs))

\* the source texts of a context followed by n fragments
Sources(ctx, n) == {JoinFrags(ctx \o fs) : fs \in [1..n -> Lexicon]}

(***************************************************************************)
(* The state machine: Parser::from_tokens(Lexer::new(source)), one action  *)
(* for each kind of turn of its loop, and the consumer's API calls.        *)
(*   result: "running" inside from_tokens, "ok" / "err" once it returned   *)
(*   Ok(parser) / Err(err), "hang" when it never returns.                  *)
(***************************************************************************)
\* no traversal under way
NoWalk ==
    [mode |-> "none", roots |-> <<>>, next_root |-> 1, frames |-> <<>>,
     retval |-> "none", visited |-> <<>>]

\* no Prop constructor called
NoProp == [fn |-> "none", literal |-> <<>>, prop |-> <<>>]

\* the last call a consumer made: none yet
NoCall == [op |-> "none", root |-> <<>>, arg |-> <<>>, ret |-> None]

Init ==
    /\ \E ctx \in Contexts, n \in 0..MaxFrags : source \in Sources(ctx, n)
    /\ lexer = Lexer_new
    /\ things = Parser_new.things
    /\ thing_stack = Parser_new.thing_stack
    /\ result = "running"
    /\ err = NoError
    /\ pulled = <<>>
    /\ call = NoCall
    /\ calls = 0
    /\ walk = NoWalk
    /\ yielded = "start"
    /\ made = NoProp

\* what the next call of the iterator would give
Upcoming == consume(source, lexer)

ItemIs(c, kind, literals) ==
    c.status = "some" /\ c.token.kind = kind /\ c.token.literal \in literals

UpcomingIs(kind, literals) == ItemIs(Upcoming, kind, literals)

Becomes(r) ==
    /\ result' = r.result
    /\ things' = r.parser.things
    /\ thing_stack' = r.parser.thing_stack
    /\ lexer' = r.it.lexer
    /\ pulled' = r.it.pulled
    /\ err' = r.err
    /\ UNCHANGED <<source, call, calls, walk, yielded, made>>

Turn ==
    Becomes(from_tokens_step(source,
               [things |-> things, thing_stack |-> thing_stack],
               [lexer |-> lexer, pulled |-> pulled]))

ParseThing == result = "running" /\ UpcomingIs("Word", {W_thing}) /\ Turn

ParseProp == result = "running" /\ UpcomingIs("Word", TypeWords) /\ Turn

CloseThing == result = "running" /\ UpcomingIs("Symbol", {<<"}">>}) /\ Turn

UnexpectedToken ==
    /\ result = "running"
    /\ Upcoming.status = "some"
    /\ ~UpcomingIs("Word", {W_thing} \cup TypeWords)
    /\ ~UpcomingIs("Symbol", {<<"}">>})
    /\ Turn

EndOfStream == result = "running" /\ Upcoming.status = "none" /\ Turn

LexerHangs == result = "running" /\ Upcoming.status = "hang" /\ Turn

AddThing ==
    /\ result = "ok"
    /\ calls < MaxCalls
    /\ \E root \in DOMAIN things, child \in ChildInputs :
          LET r == add_thing(things[root], child)
          IN  /\ things' = [things EXCEPT ![root] = r.thing]
              /\ call' = [op |-> "add_thing", root |-> root, arg |-> child,
                          ret |-> r.ret]
    /\ calls' = calls + 1
    /\ UNCHANGED <<source, lexer, thing_stack, result, err, pulled,
                   walk, yielded, made>>

AddProp ==
    /\ result = "ok"
    /\ calls < MaxCalls
    /\ \E root \in DOMAIN things, prop \in PropInputs :
          /\ things' = [things EXCEPT ![root] = add_prop(things[root], prop)]
          /\ call' = [op |-> "add_prop", root |-> root, arg |-> prop,
                      ret |-> None]
    /\ calls' = calls + 1
    /\ UNCHANGED <<source, lexer, thing_stack, result, err, pulled,
                   walk, yielded, made>>

Next ==
    \/ ParseThing
    \/ ParseProp
    \/ CloseThing
    \/ UnexpectedToken
    \/ EndOfStream
    \/ LexerHangs

Spec == Init /\ [][Next]_vars

NextApi == Next \/ AddThing \/ AddProp

SpecApi == Init /\ [][NextApi]_vars

(***************************************************************************)
(* Traversals: Thing::foreach, Thing::foreach_ctrl (core.rs) and            *)
(* foreach_thing_ctrl (bin/fdl-view.rs).  The recursion of the helpers is   *)
(* a stack of frames, innermost last.  A frame is                           *)
(*   [thing, parent, depth, pc, todo, root, path]                           *)
(* with pc "call" before the visitor is invoked on thing and "loop" inside  *)
(* 'for (_, child) in &thing.things', todo the children the loop has not    *)
(* reached yet (a HashMap iterates in an order of its own choosing), and    *)
(* root, path naming the node: the index of its root in the Vec and the     *)
(* names from that root down to it.  walk.retval is what the call that      *)
(* just returned gave its caller, "none" when nothing is pending.           *)
(* walk.visited lists the visitor's invocations, oldest first.              *)
(***************************************************************************)
\* number of roots of the Vec<Thing> handed to foreach_thing_ctrl
MaxRoots == 2

N_C == <<"C">>
N_D == <<"D">>

ForeachCtrl == {"Break", "BreakSubtree", "Continue"}

\* what the visitor of Thing::foreach gives: ()
Unit == "Unit"

Frame(thing, parent, depth, root, path) ==
    [thing |-> thing, parent |-> parent, depth |-> depth, pc |-> "call",
     todo |-> DOMAIN thing.things, root |-> root, path |-> path]

\* the match on the visitor's answer with BreakSubtree left to the default arm
ctrl_after_visit_break_only(ctrl) ==
    CASE ctrl = "Break" -> "Break"
      [] OTHER -> "none"

\* the match on the visitor's answer going on to the children for no answer
ctrl_after_visit_no_descent(ctrl) ==
    CASE ctrl = "Break" -> "Break"
      [] OTHER -> "BreakSubtree"

\* the match on f(thing, parent, depth) in foreach_ctrl_helper: the value
\* the helper returns at once, "none" when it goes on to the children
ctrl_after_visit(ctrl) ==
    CASE ctrl = "Break" -> "Break"
      [] ctrl = "BreakSubtree" -> "BreakSubtree"
      [] OTHER -> "none"

\* the match on the recursive call with no arm for Break
ctrl_after_child_ignoring(ret) == "none"

\* the match on the recursive call in the loop of foreach_ctrl_helper
ctrl_after_child(ret) ==
    CASE ret = "Break" -> "Break"
      [] OTHER -> "none"

\* a child handed the depth of its parent
child_depth_same(depth) == depth

\* the depth foreach_helper and foreach_ctrl_helper hand to a child
child_depth(depth) == depth + 1

\* the frame of the recursive call on the child named k
child_frame(frame, k) ==
    Frame(frame.thing.things[k], Some(frame.thing), child_depth(frame.depth),
          frame.root, Append(frame.path, k))

\* Thing::foreach / Thing::foreach_ctrl on the root at index i of the Vec
root_frame(roots, i) == Frame(roots[i], None, 0, i, <<roots[i].name>>)

Controlled(mode) == mode \in {"foreach_ctrl", "foreach_thing_ctrl"}

\* what a visitor may answer
Answers(mode) == IF Controlled(mode) THEN ForeachCtrl ELSE {Unit}

\* what the helper gives back right after the visitor answered
after_visit(mode, ctrl) ==
    IF Controlled(mode) THEN ctrl_after_visit(ctrl) ELSE "none"

\* what the helper gives back right after a child's call returned ret
after_child(mode, ret) ==
    IF Controlled(mode) THEN ctrl_after_child(ret) ELSE "none"

\* what the helper returns when its loop is over
after_loop(mode) == IF Controlled(mode) THEN "Continue" ELSE Unit

Tree_leaf == Thing_new(N_B)
Tree_pair == add_thing(Thing_new(N_A), Thing_new(N_B)).thing
Tree_inner == add_thing(Thing_new(N_B), Thing_new(N_C)).thing
\* the tree of the tests of core.rs: two children, the first with a child
Tree_test ==
    add_thing(add_thing(Thing_new(N_A), Tree_inner).thing, Thing_new(N_D)).thing
Tree_deep == add_thing(Thing_new(N_D), Tree_test).thing

Trees == {Tree_leaf, Tree_pair, Tree_test, Tree_deep}

RECURSIVE Vecs(_, _)
Vecs(S, n) ==
    IF n = 0 THEN {<<>>}
    ELSE {Append(v, x) : v \in Vecs(S, n - 1), x \in S}

Forests(mode) ==
    IF mode = "foreach_thing_ctrl"
    THEN UNION {Vecs(Trees, n) : n \in 1..MaxRoots}
    ELSE Vecs(Trees, 1)

WalkModes == {"foreach", "foreach_ctrl", "foreach_thing_ctrl"}

InitWalk ==
    /\ source = <<>>
    /\ lexer = Lexer_new
    /\ things = Parser_new.things
    /\ thing_stack = Parser_new.thing_stack
    /\ result = "ok"
    /\ err = NoError
    /\ pulled = <<>>
    /\ call = NoCall
    /\ calls = 0
    /\ yielded = "start"
    /\ made = NoProp
    /\ \E mode \in WalkModes :
          \E roots \in Forests(mode) :
             walk = [NoWalk EXCEPT !.mode = mode, !.roots = roots]

WalkBecomes(w) ==
    /\ walk' = w
    /\ UNCHANGED <<source, lexer, things, thing_stack, result, err, pulled,
                   call, calls, yielded, made>>

TopFrame == Last(walk.frames)

InFrame(pc) == walk.frames # <<>> /\ TopFrame.pc = pc

Visited(frame, ctrl) ==
    [root |-> frame.root, path |-> frame.path, thing |-> frame.thing,
     parent |-> frame.parent, depth |-> frame.depth, ctrl |-> ctrl]

\* the top frame returns ret to its caller
Returning(w, ret) == [w EXCEPT !.frames = Front(@), !.retval = ret]

\* 'for thing in things { thing.foreach_ctrl(&mut f) }' and the single
\* call of Thing::foreach / Thing::foreach_ctrl: the next root is entered
CallRoot ==
    /\ walk.mode # "none"
    /\ walk.frames = <<>>
    /\ walk.retval = "none"
    /\ walk.next_root <= Len(walk.roots)
    /\ WalkBecomes([walk EXCEPT
                      !.frames = <<root_frame(walk.roots, walk.next_root)>>,
                      !.next_root = @ + 1])

\* f(thing, parent, depth) and the match on its answer
VisitWith(ctrl, w) ==
    IF after_visit(walk.mode, ctrl) # "none"
    THEN WalkBecomes(Returning(w, after_visit(walk.mode, ctrl)))
    ELSE WalkBecomes([w EXCEPT !.frames[Len(walk.frames)].pc = "loop"])

Visit ==
    /\ InFrame("call")
    /\ \E ctrl \in Answers(walk.mode) :
          VisitWith(ctrl, [walk EXCEPT
                             !.visited = Append(@, Visited(TopFrame, ctrl))])

\* the loop reaches its next child and calls the helper on it
Descend ==
    /\ InFrame("loop")
    /\ walk.retval = "none"
    /\ \E k \in TopFrame.todo :
          WalkBecomes([walk EXCEPT
                         !.frames = Append(
                             [@ EXCEPT ![Len(walk.frames)].todo = @ \ {k}],
                             child_frame(TopFrame, k))])

\* the match on what the child's call returned
AfterChild ==
    /\ InFrame("loop")
    /\ walk.retval # "none"
    /\ IF after_child(walk.mode, walk.retval) # "none"
       THEN WalkBecomes(Returning(walk, after_child(walk.mode, walk.retval)))
       ELSE WalkBecomes([walk EXCEPT !.retval = "none"])

\* the loop is over: the helper returns
LoopDone ==
    /\ InFrame("loop")
    /\ walk.retval = "none"
    /\ TopFrame.todo = {}
    /\ WalkBecomes(Returning(walk, after_loop(walk.mode)))

\* Thing::foreach and Thing::foreach_ctrl return (): what the helper gave
\* them is dropped
RootReturned ==
    /\ walk.frames = <<>>
    /\ walk.retval # "none"
    /\ WalkBecomes([walk EXCEPT !.retval = "none"])

NextWalk ==
    \/ CallRoot
    \/ Visit
    \/ Descend
    \/ AfterChild
    \/ LoopDone
    \/ RootReturned

SpecWalk == InitWalk /\ [][NextWalk]_vars

(***************************************************************************)
(* The lexer on its own: a consumer calls Iterator::next on Lexer::new of  *)
(* a source text until it gives None.  yielded is the outcome of the last  *)
(* call: "some", "none", or "hang" for a call that never returns.          *)
(***************************************************************************)
\* length of a source text handed to Lexer::new
MaxLen == 4

\* the characters those source texts are written with
LexChars ==
    {"1", ".", "a", QUOTE, BACKSLASH, NEWLINE, " ", NUL, E_ACUTE, ONE_HALF}

LexSources == UNION {Vecs(LexChars, n) : n \in 0..MaxLen}

InitLex ==
    /\ source \in LexSources
    /\ lexer = Lexer_new
    /\ things = Parser_new.things
    /\ thing_stack = Parser_new.thing_stack
    /\ result = "running"
    /\ err = NoError
    /\ pulled = <<>>
    /\ call = NoCall
    /\ calls = 0
    /\ walk = NoWalk
    /\ yielded = "start"
    /\ made = NoProp

\* Iterator::next gave n
LexBecomes(n) ==
    /\ yielded' = n.status
    /\ lexer' = IF n.status = "hang" THEN lexer ELSE n.it.lexer
    /\ pulled' = n.it.pulled
    /\ UNCHANGED <<source, things, thing_stack, result, err, call, calls,
                   walk, made>>

LexerCall ==
    /\ yielded # "hang"
    /\ LexBecomes(next(source, [lexer |-> lexer, pulled |-> pulled]))

NextSome == Upcoming.status = "some" /\ LexerCall

NextNone == Upcoming.status = "none" /\ LexerCall

NextHangs == Upcoming.status = "hang" /\ LexerCall

NextLex == NextSome \/ NextNone \/ NextHangs

SpecLex == InitLex /\ [][NextLex]_vars

(***************************************************************************)
(* Prop::int_from_literal on its own and inside a declaration: a literal   *)
(* is handed to the constructor, and the source                            *)
(*   thing "A" {  int x = <literal> }                                      *)
(* is handed to Parser::from_tokens(Lexer::new(source)).                   *)
(***************************************************************************)
\* length of the free part of a literal
MaxLitLen == 2

LitChars == {"0", "1", "9", "-", "+", "a", " ", QUOTE}

Signs == {<<>>, <<"+">>, <<"-">>}

\* 214748364
EdgeHead == <<"2", "1", "4", "7", "4", "8", "3", "6", "4">>

\* digit strings around the ends of the i32 range
EdgeDigits ==
    {EdgeHead \o <<d>> : d \in AsciiDigits}
      \cup {<<"0", "0">> \o EdgeHead \o <<d>> : d \in {"7", "8"}}
      \cup {EdgeHead \o <<"7", "0">>, EdgeHead, <<"3">> \o EdgeHead}

IntLiterals ==
    {sign \o body :
        sign \in Signs,
        body \in EdgeDigits \cup UNION {Vecs(LitChars, n) : n \in 0..MaxLitLen}}

\* the text before the value of the declaration, on the line after F_open_A
DeclHead == SP \o W_int \o SP \o N_x \o <<" ", "=", " ">>

DeclOf(lit) == F_open_A \o DeclHead \o lit \o <<" ", "}", " ">>

InitLit ==
    /\ \E lit \in IntLiterals :
          /\ made = [NoProp EXCEPT !.literal = lit]
          /\ source = DeclOf(lit)
    /\ lexer = Lexer_new
    /\ things = Parser_new.things
    /\ thing_stack = Parser_new.thing_stack
    /\ result = "running"
    /\ err = NoError
    /\ pulled = <<>>
    /\ call = NoCall
    /\ calls = 0
    /\ walk = NoWalk
    /\ yielded = "start"

IntFromLiteral ==
    /\ made.fn = "none"
    /\ made' = [made EXCEPT !.fn = "int_from_literal",
                            !.prop = int_from_literal(N_x, made.literal)]
    /\ UNCHANGED <<source, lexer, things, thing_stack, result, err, pulled,
                   call, calls, walk, yielded>>

NextLit == Next \/ IntFromLiteral

SpecLit == InitLit /\ [][NextLit]_vars

(***************************************************************************)
(* One prop declaration of each type and what follows it:                  *)
(* Parser::from_tokens(Lexer::new(source)) on the sources                  *)
(*   thing "A" { TYPE x = VALUE TAIL                                       *)
(***************************************************************************)
\* the number of fragments after the value
MaxTail == 1

\* the texts written where the value is expected
ValueTexts ==
    {<<>>, <<"}">>, <<"=">>, <<"-", "5">>, <<"+", "5">>, <<"5">>, L_dec,
     L_true, N_y, S_A, <<QUOTE, QUOTE>>}

\* the text before the value of a declaration of the type type_word, on the
\* line after F_open_A
DeclHeadOf(type_word) == SP \o type_word \o SP \o N_x \o <<" ", "=", " ">>

DeclSources ==
    {F_open_A \o DeclHeadOf(type_word) \o text \o SP \o tail :
        type_word \in TypeWords,
        text \in ValueTexts,
        tail \in UNION {Sources(<<>>, n) : n \in 0..MaxTail}}

InitDecl ==
    /\ source \in DeclSources
    /\ lexer = Lexer_new
    /\ things = Parser_new.things
    /\ thing_stack = Parser_new.thing_stack
    /\ result = "running"
    /\ err = NoError
    /\ pulled = <<>>
    /\ call = NoCall
    /\ calls = 0
    /\ walk = NoWalk
    /\ yielded = "start"
    /\ made = NoProp

SpecDecl == InitDecl /\ [][Next]_vars

(***************************************************************************)
(* Properties.                                                             *)
(***************************************************************************)
\* the items the lexer yields for src from state lx on, up to its end or
\* to the call that never returns
RECURSIVE TokensFrom(_, _)
TokensFrom(src, lx) ==
    LET c == consume(src, lx)
    IN  IF c.status = "some"
        THEN <<[token |-> c.token, info |-> c.info]>> \o TokensFrom(src, c.lx)
        ELSE <<>>

Tokens(src) == TokensFrom(src, Lexer_new)

IsThingKeyword(c) ==
    c.status = "some" /\ c.token.kind = "Word" /\ c.token.literal = W_thing

\* no item the lexer yields for src from lx on is the Word 'thing'
RECURSIVE NoThingFrom(_, _)
NoThingFrom(src, c) ==
    IF c.status # "some" THEN TRUE
    ELSE IF IsThingKeyword(c) THEN FALSE
    ELSE NoThingFrom(src, consume(src, c.lx))

NoThingKeyword(src) == NoThingFrom(src, consume(src, Lexer_new))

FirstOf(src) == consume(src, Lexer_new)

\* C1, as stated: once from_tokens is over on a source without the keyword
\* 'thing', it has returned Ok with an empty forest.
C1_AsStated ==
    (result # "running" /\ NoThingKeyword(source))
        => (result = "ok" /\ things = EmptyMap)

\* C1, amended: on a source without the keyword 'thing' the forest is never
\* non-empty; from_tokens returns Ok (with the empty forest) exactly when
\* the source holds no token, returns Err positioned at the first token
\* when there is one, and never returns when that first token is a string
\* that is never closed.
C1_NoThingKeyword ==
    \/ /\ things = EmptyMap
        /\ thing_stack = <<>>
        /\ result # "running" =>
             /\ FirstOf(source).status = "none" => result = "ok"
             /\ FirstOf(source).status = "hang" => result = "hang"
             /\ FirstOf(source).status = "some" =>
                  /\ result = "err"
                  /\ err.token_info = FirstOf(source).info
                  /\ err.message.text \in
                       {"Unexpected token", "Unexpected symbol: '}'",
                        "Unexpected prop definition outside of thing"}
    \/ ~NoThingKeyword(source)

\* C1 witness: a source without the keyword, with tokens, has been rejected.
C1_Witness ==
    /\ result = "err"
    /\ Len(Tokens(source)) >= 2
    /\ NoThingKeyword(source)

\* the map m with the entry k -> v put in, whatever was there
WithEntry(m, k, v) == [x \in (DOMAIN m) \cup {k} |-> IF x = k THEN v ELSE m[x]]

IsSymbol(item, c) == item.token.kind = "Symbol" /\ item.token.literal = <<c>>

IsWord(item, w) == item.token.kind = "Word" /\ item.token.literal = w

\* The tree the grammar gives, read by recursive descent over the items
\* toks of a well-formed source: RefBody reads (prop_decl | thing_decl)* from
\* item i on into body = [props, things] and gives [body, i], i the place of
\* the '}' that ends the body (or Len(toks) + 1).
RECURSIVE RefBody(_, _, _)
RefBody(toks, i, body) ==
    IF i > Len(toks) \/ IsSymbol(toks[i], "}") THEN [body |-> body, i |-> i]
    ELSE IF IsWord(toks[i], W_thing)
    THEN LET inner == RefBody(toks, i + 3, [props |-> <<>>, things |-> <<>>])
             name == strip_quotes(toks[i + 1].token.literal)
             child == [name |-> name, props |-> inner.body.props,
                       things |-> inner.body.things]
         IN  RefBody(toks, inner.i + 1,
                     [body EXCEPT !.things = WithEntry(@, name, child)])
    ELSE LET name == toks[i + 1].token.literal
             prop == prop_from_literal(toks[i].token.literal, name,
                                       toks[i + 3].token.literal)
         IN  RefBody(toks, i + 4,
                     [body EXCEPT !.props = WithEntry(@, name, prop)])

RefForest(src) ==
    RefBody(Tokens(src), 1, [props |-> <<>>, things |-> <<>>]).body.things

\* a turn of the loop that closed a thing
ClosedOne ==
    result' = "running" /\ Len(thing_stack') = Len(thing_stack) - 1

\* a turn of the loop that read a whole prop declaration
DeclaredProp ==
    /\ result' = "running"
    /\ Len(pulled') = Len(pulled) + 4
    /\ pulled'[Len(pulled) + 1].token.literal \in TypeWords

C2_Step ==
    LET s == thing_stack
        t == thing_stack'
        top == Last(s)
        name == pulled'[Len(pulled) + 2].token.literal
    IN  /\ ClosedOne =>
              IF Len(s) >= 2
              THEN /\ things' = things
                   /\ t = [Front(s) EXCEPT ![Len(s) - 1].things =
                              WithEntry(@, top.name, top)]
              ELSE /\ things' = WithEntry(things, top.name, top)
                   /\ t = <<>>
        /\ ~ClosedOne =>
              /\ things' = things
              /\ \A i \in 1..Len(s) : i <= Len(t) => t[i].things = s[i].things
              /\ Len(t) > Len(s) =>
                    /\ Front(t) = s
                    /\ Last(t).things = <<>>
                    /\ Last(t).props = <<>>
        /\ DeclaredProp =>
              /\ Len(t) = Len(s)
              /\ Front(t) = Front(s)
              /\ Last(t).name = top.name
              /\ DOMAIN Last(t).props = (DOMAIN top.props) \cup {name}
              /\ Last(t).props[name].name = name
              /\ \A k \in DOMAIN top.props :
                    k # name => Last(t).props[k] = top.props[k]
        /\ (~DeclaredProp /\ ~ClosedOne) =>
              \A i \in 1..Len(s) : i <= Len(t) => t[i].props = s[i].props

\* C2: a thing enters the thing below it on the stack (the forest when the
\* stack is otherwise empty) in the turn that reads its '}' and in no other
\* turn; a prop declaration changes the props of the innermost open thing
\* only; and the forest of a successful parse is the tree that recursive
\* descent over the braces of the source gives.
C2_TreeMirrorsNesting ==
    /\ [](result = "ok" => things = RefForest(source))
    /\ [][C2_Step]_vars

\* C2 witness: a successful parse in which the prop x, declared after the
\* nested thing B was closed, is a prop of A and B is a child of A.
C2_Witness ==
    /\ result = "ok"
    /\ DOMAIN things = {N_A}
    /\ DOMAIN things[N_A].things = {N_B}
    /\ DOMAIN things[N_A].props = {N_x}
    /\ things[N_A].things[N_B].props = <<>>
    /\ Len(pulled) = 12
    /\ IsSymbol(pulled[7], "}")
    /\ IsWord(pulled[8], W_int)

\* the turn of the loop that starts here finds the iterator exhausted
AtEndOfStream == result = "running" /\ Upcoming.status = "none"

C3_Step ==
    /\ (result = "running" /\ result' = "ok") =>
          (AtEndOfStream /\ thing_stack = <<>>)
    /\ (AtEndOfStream /\ thing_stack = <<>>) => result' = "ok"
    /\ (AtEndOfStream /\ thing_stack # <<>>) =>
          /\ result' = "err"
          /\ err'.token_info = [line |-> 0, col |-> 0]
          /\ err'.message =
                [text |-> "Token '{}' is missing a closing brace '}'",
                 arg |-> Last(thing_stack).name]

\* C3: from_tokens returns Ok only from an exhausted stream with an empty
\* stack; an exhausted stream with things still open gives Err at (0, 0)
\* whose message names the innermost open thing.
C3_EndOfStream ==
    /\ [](result = "ok" => thing_stack = <<>>)
    /\ [][C3_Step]_vars

\* C3 witness: the stream ended with A and, inside it, B open; the error
\* names B (A is what is left of the stack).
C3_Witness ==
    /\ result = "err"
    /\ err.message = MissingBraceMessage(N_B)
    /\ err.token_info = TokenInfo_new(0, 0)
    /\ Len(thing_stack) = 1
    /\ thing_stack[1].name = N_A

\* a '}' is read at the top of the loop while no thing is open
StrayBrace ==
    /\ result = "running"
    /\ UpcomingIs("Symbol", {<<"}">>})
    /\ thing_stack = <<>>

\* C4: a '}' read at the top of the loop with an empty stack makes
\* from_tokens return Err carrying the line and column of that '}'.
C4_StrayBrace ==
    [][StrayBrace =>
          /\ result' = "err"
          /\ err'.token_info = Upcoming.info
          /\ things' = things]_vars

\* C4 witness: a stray '}' after an earlier thing was closed, away from
\* the origin, has been rejected.
C4_Witness ==
    /\ result = "err"
    /\ err.message = Message("Unexpected symbol: '}'")
    /\ things # <<>>
    /\ IsSymbol(Last(pulled), "}")
    /\ err.token_info = Last(pulled).info
    /\ err.token_info # TokenInfo_new(0, 0)

RECURSIVE HasErrProp(_)
HasErrProp(thing) ==
    \/ \E k \in DOMAIN thing.props : thing.props[k].value = PV_Err
    \/ \E k \in DOMAIN thing.things : HasErrProp(thing.things[k])

\* the items the next four calls of the iterator would give
Ahead1 == Upcoming
Ahead2 == consume(source, Ahead1.lx)
Ahead3 == consume(source, Ahead2.lx)
Ahead4 == consume(source, Ahead3.lx)

\* a prop declaration TYPE WORD = VALUE is about to be read in an open thing
PropDeclAhead ==
    /\ result = "running"
    /\ thing_stack # <<>>
    /\ UpcomingIs("Word", TypeWords)
    /\ Ahead2.status = "some" /\ Ahead2.token.kind = "Word"
    /\ ItemIs(Ahead3, "Symbol", {<<"=">>})
    /\ Ahead4.status = "some"

\* the value of the declaration ahead does not convert to its type
ValueMismatchAhead ==
    /\ PropDeclAhead
    /\ Ahead1.token.literal \in {W_int, W_float, W_bool}
    /\ prop_from_literal(Ahead1.token.literal, Ahead2.token.literal,
                         Ahead4.token.literal).value = PV_Err

\* C5: a prop declaration in an open thing whose value does not convert to
\* the declared type makes from_tokens return Err at the value token with
\* the value message, and adds no prop; no forest of a successful parse
\* holds a prop whose value is PropValue::Err.
C5_ValueMismatch ==
    /\ [](result = "ok" => \A k \in DOMAIN things : ~HasErrProp(things[k]))
    /\ [][ValueMismatchAhead =>
             /\ result' = "err"
             /\ err' = [token_info |-> Ahead4.info,
                        message |-> Message(
                "Unable to parse prop value matching declared prop type")]
             /\ thing_stack' = thing_stack
             /\ things' = things]_vars

\* C5 witness: 'float y = true' inside an open thing has been rejected at
\* the value token.
C5_Witness ==
    /\ result = "err"
    /\ err.message.text =
          "Unable to parse prop value matching declared prop type"
    /\ thing_stack # <<>>
    /\ Len(pulled) >= 4
    /\ IsWord(pulled[Len(pulled) - 3], W_float)
    /\ IsWord(Last(pulled), L_true)
    /\ err.token_info = Last(pulled).info

\* a type word is read at the top of the loop while no thing is open
PropOutsideAhead ==
    /\ result = "running"
    /\ UpcomingIs("Word", TypeWords)
    /\ thing_stack = <<>>

\* C6: a type word read at the top of the loop with an empty stack makes
\* from_tokens return Err "Unexpected prop definition outside of thing" at
\* that word, whatever follows, and no token after the word is pulled.
C6_PropOutsideThing ==
    [][PropOutsideAhead =>
          /\ result' = "err"
          /\ err' = [token_info |-> Upcoming.info,
                     message |-> Message(
                         "Unexpected prop definition outside of thing")]
          /\ lexer' = Upcoming.lx
          /\ pulled' = Append(pulled, [token |-> Upcoming.token,
                                       info |-> Upcoming.info])]_vars

\* C6 witness: a type word outside of any thing, followed by something that
\* is no prop name, has been rejected at the type word, the rest unread.
C6_Witness ==
    /\ result = "err"
    /\ err.message = Message("Unexpected prop definition outside of thing")
    /\ err.token_info = Last(pulled).info
    /\ err.token_info # TokenInfo_new(0, 0)
    /\ Upcoming.status = "some"
    /\ Upcoming.token.kind # "Word"

\* the error a declaration gives for a failed expectation
ExpectationError(info, text) ==
    /\ result' = "err"
    /\ err' = [token_info |-> info, message |-> Message(text)]

IsSome(c) == c.status = "some"

IsNone(c) == c.status = "none"

ThingDeclAhead == result = "running" /\ UpcomingIs("Word", {W_thing})

PropHeadAhead ==
    /\ result = "running"
    /\ thing_stack # <<>>
    /\ UpcomingIs("Word", TypeWords)

C7_ThingStep ==
    /\ IsNone(Ahead2) =>
          ExpectationError(Ahead1.info,
                           "Expected String name after keyword 'thing'")
    /\ (IsSome(Ahead2) /\ Ahead2.token.kind # "String") =>
          ExpectationError(Ahead2.info,
                           "Expected String name after keyword 'thing'")
    /\ (IsSome(Ahead2) /\ Ahead2.token.kind = "String") =>
          /\ IsNone(Ahead3) =>
                ExpectationError(Ahead2.info, "Expected '{' after thing name")
          /\ (IsSome(Ahead3) /\ ~ItemIs(Ahead3, "Symbol", {<<"{">>})) =>
                ExpectationError(Ahead3.info, "Expected '{' after thing name")

C7_PropStep ==
    /\ IsNone(Ahead2) =>
          ExpectationError(Ahead1.info, "Expected name after prop type")
    /\ (IsSome(Ahead2) /\ Ahead2.token.kind # "Word") =>
          ExpectationError(Ahead2.info, "Expected name after prop type")
    /\ (IsSome(Ahead2) /\ Ahead2.token.kind = "Word") =>
          /\ IsNone(Ahead3) =>
                ExpectationError(Ahead2.info, "Expected '=' symbol prop name")
          /\ (IsSome(Ahead3) /\ ~ItemIs(Ahead3, "Symbol", {<<"=">>})) =>
                ExpectationError(Ahead3.info, "Expected '=' symbol prop name")
          /\ (ItemIs(Ahead3, "Symbol", {<<"=">>}) /\ IsNone(Ahead4)) =>
                ExpectationError(Ahead3.info,
                                 "Expected value after prop declaration")

\* C7: in a thing declaration and in a prop declaration of an open thing,
\* a token of the wrong kind or literal gives a ParseError at that token,
\* the end of the stream gives one at the last token read in the
\* declaration, and the message is the one of the expectation that failed.
C7_ExpectationErrors ==
    [][(ThingDeclAhead => C7_ThingStep) /\ (PropHeadAhead => C7_PropStep)]_vars

\* C7 witness: the stream ended after the '=' of a prop declaration; the
\* error is at the '=', the last token read.
C7_Witness ==
    /\ result = "err"
    /\ err.message = Message("Expected value after prop declaration")
    /\ IsSymbol(Last(pulled), "=")
    /\ err.token_info = Last(pulled).info
    /\ Upcoming.status = "none"

\* a token parse_token has no arm for is read at the top of the loop
OtherTokenAhead ==
    /\ result = "running"
    /\ Upcoming.status = "some"
    /\ ~(Upcoming.token.kind = "Word"
           /\ Upcoming.token.literal \in {W_thing, W_int, W_float, W_bool, W_string})
    /\ ~(Upcoming.token.kind = "Symbol" /\ Upcoming.token.literal = <<"}">>)

\* C8: a token read at the top of the loop that is not the Word 'thing', a
\* type word or the Symbol '}' makes from_tokens return Err "Unexpected
\* token" at that token, at any depth.
C8_UnexpectedToken ==
    [][OtherTokenAhead =>
          /\ result' = "err"
          /\ err' = [token_info |-> Upcoming.info,
                     message |-> Message("Unexpected token")]]_vars

\* C8 witness: a String read at the top of the loop with two things open
\* has been rejected at its place.
C8_Witness ==
    /\ result = "err"
    /\ err.message = Message("Unexpected token")
    /\ Len(thing_stack) = 2
    /\ Last(pulled).token.kind = "String"
    /\ err.token_info = Last(pulled).info

SizeOf(m) == Cardinality(DOMAIN m)

\* after is before with v put at k: the entry is v in full, every other
\* entry is as it was, and the size is unchanged when k was there
Inserted(before, after, k, v) ==
    /\ after = WithEntry(before, k, v)
    /\ after[k] = v
    /\ k \in DOMAIN before => SizeOf(after) = SizeOf(before)
    /\ k \notin DOMAIN before => SizeOf(after) = SizeOf(before) + 1

ApiCall(op) == calls' = calls + 1 /\ call'.op = op

C9_Step ==
    LET s == thing_stack
        t == thing_stack'
        top == Last(s)
        self == things[call'.root]
        after == things'[call'.root]
        arg == call'.arg
        word == pulled'[Len(pulled) + 1].token.literal
        name == pulled'[Len(pulled) + 2].token.literal
        value == pulled'[Len(pulled) + 4].token.literal
    IN  /\ ApiCall("add_prop") =>
              /\ Inserted(self.props, after.props, arg.name, arg)
              /\ after.things = self.things
        /\ ApiCall("add_thing") =>
              /\ Inserted(self.things, after.things, arg.name, arg)
              /\ after.props = self.props
              /\ call'.ret = IF arg.name \in DOMAIN self.things
                             THEN Some(self.things[arg.name])
                             ELSE None
        /\ ClosedOne =>
              IF Len(s) >= 2
              THEN Inserted(s[Len(s) - 1].things, t[Len(s) - 1].things,
                            top.name, top)
              ELSE Inserted(things, things', top.name, top)
        /\ DeclaredProp =>
              Inserted(top.props, Last(t).props, name,
                       prop_from_literal(word, name, value))

\* C9: Thing::add_prop, Thing::add_thing and the parser (closing a thing,
\* declaring a prop) insert or replace by name: the entry becomes the later
\* value in full, the other entries stay, the map size is unchanged when
\* the name was there; Thing::add_thing returns the replaced child, and
\* None when no child had that name.
C9_InsertOrReplace == [][C9_Step]_vars

\* C9 witness: Thing::add_thing has replaced a child that had props by an
\* empty thing of the same name and returned the replaced child.
C9_Witness ==
    /\ call.op = "add_thing"
    /\ call.ret # None
    /\ call.ret[1].props # EmptyMap
    /\ call.arg.props = EmptyMap
    /\ things[call.root].things[call.arg.name] = call.arg
    /\ SizeOf(things[call.root].things) = 1

IsMissingBrace(e) ==
    e.message.text = "Token '{}' is missing a closing brace '}'"

\* from_tokens returns what the parse step r reported, with the iterator as
\* that step left it
ReturnsErrorOf(r) ==
    r.res = "Err" =>
        /\ result' = "err"
        /\ err' = r.err
        /\ lexer' = r.it.lexer
        /\ pulled' = r.it.pulled

StepErrorReturned(n) ==
    n.status = "some" =>
        ReturnsErrorOf(parse_token(source,
                           [things |-> things, thing_stack |-> thing_stack],
                           n.item, n.it))

C10_Step ==
    /\ result = "running"
    /\ err = NoError
    /\ StepErrorReturned(next(source, [lexer |-> lexer, pulled |-> pulled]))

C10_Returned ==
    /\ err # NoError <=> result = "err"
    /\ result = "err" => pulled = SubSeq(Tokens(source), 1, Len(pulled))
    /\ (result = "err" /\ ~IsMissingBrace(err)) =>
          /\ pulled # <<>>
          /\ err.token_info = Last(pulled).info
    /\ (result = "err" /\ IsMissingBrace(err)) =>
          /\ Upcoming.status = "none"
          /\ pulled = Tokens(source)

\* C10: a parse step that reports an error makes from_tokens return that
\* error, and nothing is pulled from the iterator afterwards; the tokens
\* pulled are a prefix of the stream and the error is at the last of them,
\* so every token before it was parsed without error; the missing-brace
\* error of the end of the stream comes only with every token pulled and no
\* error raised.
C10_FailFast == [][C10_Step]_vars /\ []C10_Returned

\* C10 witness: from_tokens returned the error of a token with tokens left
\* unread behind it, an unexpected one among them.
C10_Witness ==
    /\ result = "err"
    /\ err.message = Message("Expected '{' after thing name")
    /\ err.token_info = Last(pulled).info
    /\ Len(Tokens(source)) >= Len(pulled) + 2
    /\ thing_stack # <<>>

\* the traversal is over: every call has returned
WalkDone ==
    /\ walk.mode # "none"
    /\ walk.frames = <<>>
    /\ walk.retval = "none"
    /\ walk.next_root > Len(walk.roots)

IsPrefix(p, q) == Len(p) <= Len(q) /\ SubSeq(q, 1, Len(p)) = p

StrictAncestor(p, q) == Len(p) < Len(q) /\ IsPrefix(p, q)

\* the paths of the nodes of the tree t
RECURSIVE PathsOf(_)
PathsOf(t) ==
    {<<t.name>>} \cup
    UNION {{<<t.name>> \o p : p \in PathsOf(t.things[k])} : k \in DOMAIN t.things}

\* the node of the tree t the path names
RECURSIVE ThingAt(_, _)
ThingAt(t, path) ==
    IF Len(path) = 1 THEN t ELSE ThingAt(t.things[path[2]], Tail(path))

Visits == walk.visited

VisitedNodes == {<<Visits[i].root, Visits[i].path>> : i \in 1..Len(Visits)}

NoNodeTwice == Cardinality(VisitedNodes) = Len(Visits)

\* the visitor answered Break only in its last invocation so far
BreakIsLast ==
    \A i \in 1..Len(Visits) : Visits[i].ctrl = "Break" => i = Len(Visits)

\* every node but a root comes after its parent, with only nodes below that
\* parent in between
PreOrder ==
    \A j \in 1..Len(Visits) :
       Len(Visits[j].path) > 1 =>
          \E i \in 1..(j - 1) :
             /\ Visits[i].root = Visits[j].root
             /\ Visits[i].path = Front(Visits[j].path)
             /\ \A k \in (i + 1)..(j - 1) :
                   /\ Visits[k].root = Visits[j].root
                   /\ StrictAncestor(Visits[i].path, Visits[k].path)

\* C11: in Thing::foreach_ctrl over one tree the visitor is not invoked
\* again once it returned Break: the nodes visited are a pre-order prefix
\* that ends at the node of the Break, each visited once.
C11_BreakStopsTree ==
    walk.mode = "foreach_ctrl" => (BreakIsLast /\ PreOrder /\ NoNodeTwice)

\* C11 witness: on the tree of the tests the walk is over after a Break at
\* the first child, reached before its sibling: its child and its sibling
\* were not visited.
C11_Witness ==
    /\ WalkDone
    /\ walk.mode = "foreach_ctrl"
    /\ walk.roots = <<Tree_test>>
    /\ Len(Visits) = 2
    /\ Visits[2].path = <<N_A, N_B>>
    /\ Visits[2].ctrl = "Break"

\* C12, as stated: in foreach_thing_ctrl over a Vec of roots the visitor is
\* not invoked again, anywhere in the forest, once it returned Break.
C12_AsStated == walk.mode = "foreach_thing_ctrl" => BreakIsLast

\* the visitor answered BreakSubtree at a strict ancestor of the node
CutOff(root, path) ==
    \E i \in 1..Len(Visits) :
       /\ Visits[i].root = root
       /\ Visits[i].ctrl = "BreakSubtree"
       /\ StrictAncestor(Visits[i].path, path)

NoBreak == \A i \in 1..Len(Visits) : Visits[i].ctrl # "Break"

\* C13: in Thing::foreach_ctrl with a visitor that never returns Break, no
\* node below a node where BreakSubtree was returned is visited, and when
\* the walk is over the nodes visited are exactly the nodes with no such
\* node above them, each visited once.
C13_BreakSubtree ==
    (walk.mode = "foreach_ctrl" /\ NoBreak) =>
        /\ NoNodeTwice
        /\ \A i \in 1..Len(Visits) : ~CutOff(1, Visits[i].path)
        /\ WalkDone =>
              \A p \in PathsOf(walk.roots[1]) :
                 <<1, p>> \in VisitedNodes <=> ~CutOff(1, p)

\* C13 witness: on the tree of the tests the walk is over with BreakSubtree
\* returned at the first child, which has a child: the root, that child and
\* its sibling were visited.
C13_Witness ==
    /\ WalkDone
    /\ walk.mode = "foreach_ctrl"
    /\ walk.roots = <<Tree_test>>
    /\ NoBreak
    /\ Len(Visits) = 3
    /\ \E i \in 1..2 :
          /\ Visits[i].path = <<N_A, N_B>>
          /\ Visits[i].ctrl = "BreakSubtree"
          /\ Visits[i + 1].path = <<N_A, N_D>>

\* C14: Thing::foreach invokes the visitor on nodes of the tree only, once
\* each, after their parent, with the node's parent (None for the root) and
\* the number of its ancestors as depth; when it is over every node of the
\* tree was visited.
C14_Foreach ==
    walk.mode = "foreach" =>
        /\ NoNodeTwice
        /\ PreOrder
        /\ \A i \in 1..Len(Visits) :
              /\ Visits[i].path \in PathsOf(walk.roots[1])
              /\ Visits[i].thing = ThingAt(walk.roots[1], Visits[i].path)
              /\ Visits[i].depth = Len(Visits[i].path) - 1
              /\ Visits[i].parent =
                    IF Len(Visits[i].path) = 1 THEN None
                    ELSE Some(ThingAt(walk.roots[1], Front(Visits[i].path)))
        /\ WalkDone =>
              VisitedNodes = {<<1, p>> : p \in PathsOf(walk.roots[1])}

\* C14 witness: Thing::foreach is over on the tree of the tests: four
\* invocations, one of them at depth 2 with the first child as parent.
C14_Witness ==
    /\ WalkDone
    /\ walk.mode = "foreach"
    /\ walk.roots = <<Tree_test>>
    /\ Len(Visits) = 4
    /\ \E i \in 1..4 :
          /\ Visits[i].depth = 2
          /\ Visits[i].thing.name = N_C
          /\ Visits[i].parent = Some(Tree_inner)

\* the token the last call of next() gave
LastToken == Last(pulled).token

\* zero-based index of the first character of that token: its literal is
\* the text the lexer went over
TokenStart == lexer.index - Len(LastToken.literal)

Gave(kind) == yielded = "some" /\ LastToken.kind = kind

\* where the token the next call gives would start
UpcomingStart == Upcoming.lx.index - Len(Upcoming.token.literal)

\* C15, as stated: every call of next() returns, and the lexer yields
\* finitely many tokens (a string never closed being one String token that
\* runs to the end of the input).
C15_AsStated ==
    /\ yielded # "hang"
    /\ Len(pulled) <= Len(source)

\* number of '\n' among the first n characters of src
NewlinesIn(src, n) == Cardinality({i \in 1..n : src[i] = NEWLINE})

\* zero-based index of the first character of the line the character of
\* zero-based index n is on
LineStart(src, n) ==
    IF NewlinesIn(src, n) = 0 THEN 0
    ELSE CHOOSE i \in 1..n :
            /\ src[i] = NEWLINE
            /\ \A j \in (i + 1)..n : src[j] # NEWLINE

\* C16, as stated: the line of a token is the number of '\n' before its
\* first character and its col is the distance of that character from the
\* start of its line, also after a String that holds newlines.
C16_AsStated ==
    yielded = "some" =>
        /\ Last(pulled).info.line = NewlinesIn(source, TokenStart)
        /\ Last(pulled).info.col = TokenStart - LineStart(source, TokenStart)

NotWhitespace(c) == ~is_whitespace(c)

NoWhitespace(seq) == SelectSeq(seq, NotWhitespace)

Literals == [i \in 1..Len(pulled) |-> pulled[i].token.literal]

\* C17, as stated: once the lexer gave None, the literals of its tokens
\* joined in order are the source, whitespace removed from both, and only
\* whitespace is left unread.
C17_AsStated ==
    yielded = "none" =>
        /\ NoWhitespace(Flatten(Literals)) = NoWhitespace(source)
        /\ \A i \in (lexer.index + 1)..Len(source) : is_whitespace(source[i])

\* the character at the one-based index i of src belongs to a number: a
\* digit, or a '.' with a digit right after it
IsNumberChar(src, i) ==
    /\ i <= Len(src)
    /\ \/ src[i] \in AsciiDigits
       \/ src[i] = "." /\ i + 1 <= Len(src) /\ src[i + 1] \in AsciiDigits

\* C18, as stated: a token that starts at a digit is a Number; a Number
\* starts at a digit and is the longest run of digits and of '.' followed
\* by a digit from there, so it does not end with '.' nor hold '..', and a
\* letter right after it starts a Word.
C18_AsStated ==
    /\ (yielded = "some" /\ source[TokenStart + 1] \in AsciiDigits) =>
          LastToken.kind = "Number"
    /\ Gave("Number") =>
          /\ source[TokenStart + 1] \in AsciiDigits
          /\ LastToken.literal = SubSeq(source, TokenStart + 1, lexer.index)
          /\ \A i \in (TokenStart + 1)..lexer.index : IsNumberChar(source, i)
          /\ ~IsNumberChar(source, lexer.index + 1)
          /\ Last(LastToken.literal) # "."
          /\ \A i \in 1..(Len(LastToken.literal) - 1) :
                ~(LastToken.literal[i] = "." /\ LastToken.literal[i + 1] = ".")
          /\ (lexer.index < Len(source)
                /\ source[lexer.index + 1] \in AsciiLetters \cup {E_ACUTE}) =>
                /\ Upcoming.status = "some"
                /\ Upcoming.token.kind = "Word"
                /\ UpcomingStart = lexer.index

\* the quote at the one-based index i of src closes a string: the
\* character before it is no backslash
IsClosing(src, i) == src[i] = QUOTE /\ src[i - 1] # BACKSLASH

\* C19: a String starts at a quote, ends at the first later quote that has
\* no backslash right before it, its literal is that stretch of the source
\* unchanged, and the next token starts after the closing quote.
C19_String ==
    /\ (yielded = "some" /\ source[TokenStart + 1] = QUOTE) =>
          LastToken.kind = "String"
    /\ Gave("String") =>
          /\ source[TokenStart + 1] = QUOTE
          /\ lexer.index >= TokenStart + 2
          /\ IsClosing(source, lexer.index)
          /\ \A i \in (TokenStart + 2)..(lexer.index - 1) :
                ~IsClosing(source, i)
          /\ LastToken.literal = SubSeq(source, TokenStart + 1, lexer.index)
          /\ Upcoming.status = "some" =>
                /\ UpcomingStart >= lexer.index
                /\ \A i \in (lexer.index + 1)..UpcomingStart :
                      is_whitespace(source[i])

\* C19 witness: a String holding an escaped quote was given.
C19_Witness ==
    /\ Gave("String")
    /\ LastToken.literal = <<QUOTE, BACKSLASH, QUOTE, QUOTE>>

RECURSIVE StripLeadingZeros(_)
StripLeadingZeros(ds) ==
    IF Len(ds) > 1 /\ Head(ds) = "0" THEN StripLeadingZeros(Tail(ds)) ELSE ds

\* a and b are digit strings of one length: a is at most b as a number
RECURSIVE DigitsLeq(_, _)
DigitsLeq(a, b) ==
    \/ a = <<>>
    \/ DigitValue(Head(a)) < DigitValue(Head(b))
    \/ Head(a) = Head(b) /\ DigitsLeq(Tail(a), Tail(b))

\* 2147483647 and 2147483648 as digits
MaxDigits == EdgeHead \o <<"7">>
MinDigits == EdgeHead \o <<"8">>

Negative(lit) == lit # <<>> /\ Head(lit) = "-"

Unsigned(lit) ==
    IF lit # <<>> /\ Head(lit) \in {"+", "-"} THEN Tail(lit) ELSE lit

\* lit is a base-10 integer, optional sign and digits only, whose value
\* lies in [-2147483648, 2147483647]
IsI32Literal(lit) ==
    /\ Unsigned(lit) # <<>>
    /\ \A i \in 1..Len(Unsigned(lit)) : Unsigned(lit)[i] \in AsciiDigits
    /\ \/ Len(StripLeadingZeros(Unsigned(lit))) < Len(MaxDigits)
       \/ /\ Len(StripLeadingZeros(Unsigned(lit))) = Len(MaxDigits)
          /\ DigitsLeq(StripLeadingZeros(Unsigned(lit)),
                       IF Negative(lit) THEN MinDigits ELSE MaxDigits)

\* minus the value of the digit string ds
RECURSIVE MinusValue(_)
MinusValue(ds) ==
    IF ds = <<>> THEN 0 ELSE MinusValue(Front(ds)) * 10 - DigitValue(Last(ds))

I32Value(lit) ==
    IF Negative(lit) THEN MinusValue(Unsigned(lit))
    ELSE 0 - MinusValue(Unsigned(lit))

\* the value token of the declaration, when the literal is one token
ValueInfo == TokenInfo_new(1, Len(DeclHead))

Digits(lit) == lit # <<>> /\ \A i \in 1..Len(lit) : lit[i] \in AsciiDigits

\* C20: Prop::int_from_literal gives Int(v) exactly for the base-10
\* integers, optional sign and digits only, with v in the i32 range, and
\* Err for every other literal; a declaration 'int x = <digits>' with the
\* digits out of range is a parse error at the value token, and with the
\* digits in range gives the prop that value.
C20_IntFromLiteral ==
    /\ made.fn = "int_from_literal" =>
          /\ made.prop.name = N_x
          /\ IsI32Literal(made.literal) =>
                made.prop.value = PV_Int(I32Value(made.literal))
          /\ ~IsI32Literal(made.literal) => made.prop.value = PV_Err
    /\ (Digits(made.literal) /\ result \notin {"running"}) =>
          IF IsI32Literal(made.literal)
          THEN /\ result = "ok"
               /\ things[N_A].props[N_x].value = PV_Int(I32Value(made.literal))
          ELSE /\ result = "err"
               /\ err = ParseError_new(ValueInfo, Message(
                     "Unable to parse prop value matching declared prop type"))
               /\ Last(pulled).token.literal = made.literal

\* C20 witness: 2147483648 was handed to Prop::int_from_literal, which gave
\* Err, and the declaration with it was rejected at the value.
C20_Witness ==
    /\ made.fn = "int_from_literal"
    /\ made.literal = MinDigits
    /\ made.prop.value = PV_Err
    /\ result = "err"
    /\ err.token_info = ValueInfo

\* in the thing t and in everything below it, each key of a prop map and of
\* a child map is the name of what is stored under it
RECURSIVE KeysAreNames(_)
KeysAreNames(t) ==
    /\ \A p \in DOMAIN t.props : t.props[p].name = p
    /\ \A k \in DOMAIN t.things :
          t.things[k].name = k /\ KeysAreNames(t.things[k])

\* a turn of the loop that opened a thing
OpenedOne == result' = "running" /\ Len(thing_stack') = Len(thing_stack) + 1

\* the text between the first and the last character of a literal
Unquoted(lit) == SubSeq(lit, 2, Len(lit) - 1)

C21_Step ==
    OpenedOne =>
        /\ pulled'[Len(pulled) + 2].token.kind = "String"
        /\ Last(thing_stack').name =
              Unquoted(pulled'[Len(pulled) + 2].token.literal)

\* C21: in the forest and in every open thing, at every depth, each key of
\* the forest map and of a child map is the name of the thing stored under
\* it and each key of a prop map is the name of the prop stored under it;
\* the name a thing gets is its String token's literal without the two
\* delimiting quotes.
C21_KeysAreNames ==
    /\ [](/\ \A k \in DOMAIN things :
                things[k].name = k /\ KeysAreNames(things[k])
          /\ \A i \in 1..Len(thing_stack) : KeysAreNames(thing_stack[i]))
    /\ [][C21_Step]_vars

\* C21 witness: a parse returned a forest whose root A has the child B,
\* which has the prop x.
C21_Witness ==
    /\ result = "ok"
    /\ N_A \in DOMAIN things
    /\ N_B \in DOMAIN things[N_A].things
    /\ N_x \in DOMAIN things[N_A].things[N_B].props
    /\ IsWord(pulled[1], W_thing)
    /\ pulled[2].token.literal = S_A

\* the text a string prop holds for a value token's literal
StringValueOf(lit) ==
    IF Len(lit) >= 2 /\ Head(lit) = QUOTE /\ Last(lit) = QUOTE
    THEN Unquoted(lit)
    ELSE lit

\* the prop the declaration ahead declares, from its fourth token alone
PropAhead ==
    IF Ahead1.token.literal = W_string
    THEN [name |-> Ahead2.token.literal,
          value |-> PV_String(StringValueOf(Ahead4.token.literal))]
    ELSE prop_from_literal(Ahead1.token.literal, Ahead2.token.literal,
                           Ahead4.token.literal)

\* the four tokens of the declaration ahead, as the iterator gives them
FourAhead ==
    <<[token |-> Ahead1.token, info |-> Ahead1.info],
      [token |-> Ahead2.token, info |-> Ahead2.info],
      [token |-> Ahead3.token, info |-> Ahead3.info],
      [token |-> Ahead4.token, info |-> Ahead4.info]>>

C22_Step ==
    PropDeclAhead =>
        /\ pulled' = pulled \o FourAhead
        /\ lexer' = Ahead4.lx
        /\ things' = things
        /\ IF PropAhead.value = PV_Err
           THEN /\ ExpectationError(Ahead4.info,
                    "Unable to parse prop value matching declared prop type")
                /\ thing_stack' = thing_stack
           ELSE /\ result' = "running"
                /\ thing_stack' =
                      [thing_stack EXCEPT ![Len(thing_stack)].props =
                          WithEntry(@, PropAhead.name, PropAhead)]

\* the source declares TYPE x = TEXT in the thing A
Declares(type_word, text) ==
    IsPrefix(F_open_A \o DeclHeadOf(type_word) \o text \o SP, source)

\* the declaration of x has been read
DeclRead == Len(pulled) >= 7

\* C22: a prop declaration in an open thing takes exactly four tokens from
\* the iterator (type word, name Word, Symbol '=', one value token of any
\* kind), the prop is made from the fourth token alone and the lexer is left
\* right after it, so that the next turn of the loop starts at the token
\* that follows; a string prop takes a value token of any kind ('string x =
\* }' stores the text of the brace and consumes it, so the thing stays
\* open), and 'int x = -5' is rejected with the value error at the '-'.
C22_FourTokens ==
    /\ [][C22_Step]_vars
    /\ []((Declares(W_string, <<"}">>) /\ DeclRead) =>
            /\ IsSymbol(pulled[7], "}")
            /\ (Len(pulled) = 7 /\ result = "running") =>
                  /\ Len(thing_stack) = 1
                  /\ thing_stack[1].props[N_x].value = PV_String(<<"}">>)
            /\ Len(pulled) = 7 => result # "ok"
            /\ (Len(pulled) = 7 /\ result = "err") =>
                  err.message = MissingBraceMessage(N_A))
    /\ []((Declares(W_int, <<"-", "5">>) /\ DeclRead) =>
            /\ Len(pulled) = 7
            /\ IsSymbol(pulled[7], "-")
            /\ result = "err"
            /\ err = [token_info |-> TokenInfo_new(1, Len(DeclHeadOf(W_int))),
                      message |-> Message(
                "Unable to parse prop value matching declared prop type")])

\* C22 witness: 'thing "A" { string x = } }' was parsed: the first brace
\* after the '=' became the value of x and the second closed A.
C22_Witness ==
    /\ result = "ok"
    /\ Declares(W_string, <<"}">>)
    /\ Len(pulled) = 8
    /\ IsSymbol(pulled[7], "}")
    /\ IsSymbol(pulled[8], "}")
    /\ things[N_A].props[N_x].value = PV_String(<<"}">>)

\* the visitor's invocations so far as (node, parent, depth) triples
Calls ==
    [i \in 1..Len(Visits) |->
        [thing |-> Visits[i].thing, parent |-> Visits[i].parent,
         depth |-> Visits[i].depth]]

\* the place of the node at path in the walk under way, past the end for a
\* node it did not visit
RankOf(path) ==
    IF \E i \in 1..Len(Visits) : Visits[i].path = path
    THEN CHOOSE i \in 1..Len(Visits) : Visits[i].path = path
    ELSE Len(Visits) + 1

\* the child iteration order of the walk under way: of the children todo of
\* the node at path, the one it reached first
FirstChild(path, todo) ==
    CHOOSE k \in todo :
       \A j \in todo : RankOf(Append(path, k)) <= RankOf(Append(path, j))

\* Thing::foreach_helper as a function: the triples it hands to f on the
\* node thing and below, its loop taking the children in the order FirstChild
RECURSIVE foreach_helper(_, _, _, _)
RECURSIVE foreach_helper_loop(_, _, _, _)
foreach_helper(thing, parent, depth, path) ==
    <<[thing |-> thing, parent |-> parent, depth |-> depth]>>
        \o foreach_helper_loop(thing, depth, path, DOMAIN thing.things)

foreach_helper_loop(thing, depth, path, todo) ==
    IF todo = {} THEN <<>>
    ELSE foreach_helper(thing.things[FirstChild(path, todo)], Some(thing),
                        depth + 1, Append(path, FirstChild(path, todo)))
            \o foreach_helper_loop(thing, depth, path,
                                   todo \ {FirstChild(path, todo)})

\* the visitor answered Continue, or (), in every invocation so far
OnlyContinue == \A i \in 1..Len(Visits) : Visits[i].ctrl \in {"Continue", Unit}

\* C23: when Thing::foreach_ctrl is over on a tree with a visitor that
\* answered Continue every time, the (node, parent, depth) triples it handed
\* to the visitor are, in order, those Thing::foreach hands to its visitor
\* on that tree when its loops take the children in the same order; the
\* walk of Thing::foreach itself gives that sequence too.
C23_SameCalls ==
    (WalkDone /\ walk.mode \in {"foreach", "foreach_ctrl"} /\ OnlyContinue) =>
        Calls = foreach_helper(walk.roots[1], None, 0, <<walk.roots[1].name>>)

\* C23 witness: Thing::foreach_ctrl is over on the tree of the tests with
\* Continue answered four times, the childless child D taken before B.
C23_Witness ==
    /\ WalkDone
    /\ walk.mode = "foreach_ctrl"
    /\ walk.roots = <<Tree_test>>
    /\ OnlyContinue
    /\ Len(Visits) = 4
    /\ Visits[2].path = <<N_A, N_D>>
    /\ Visits[4].depth = 2

====
